---- MODULE Spec2Model ----
(***************************************************************************)
(* Startup resilience sequence of the demo service: schema initialisation  *)
(* with retry, race-tolerant seeding of the users table, and the lifespan  *)
(* that sequences them before requests are served.  Two variants of the    *)
(* service exist: backend/application.py (retrying) and backend/main.py    *)
(* (single attempt).  Several worker processes share one relational store. *)
(***************************************************************************)
EXTENDS Integers, Sequences, FiniteSets, TLC

\* ------------------------------------------------------------------ bounds
\* Number of worker processes sharing the store.
NumProcs == 2
\* Total number of process restarts in one behaviour.
MaxRestarts == 1

Procs == 1..NumProcs

\* --------------------------------------------------------------- constants
\* application.py: max_retries of seed_database and of init_database.
SeedMaxRetries == 3
InitMaxRetries == 3

\* The literal baseline data set, in insertion order.
Baseline ==
    << [name |-> "Alice Johnson", email |-> "alice@example.com"],
       [name |-> "Bob Smith",     email |-> "bob@example.com"],
       [name |-> "Charlie Brown", email |-> "charlie@example.com"],
       [name |-> "Diana Prince",  email |-> "diana@example.com"],
       [name |-> "Eve Wilson",    email |-> "eve@example.com"] >>

BaselineEmails == { Baseline[i].email : i \in 1..Len(Baseline) }

\* ------------------------------------------------------------------- state
VARIABLES
    tableExists,  \* store: the users table has been created
    users,        \* store: committed rows of the users table
    phase,        \* per process: position of lifespan (lifecycle state)
    pc,           \* per process: position inside init_database / seed_database
    attempt,      \* per process: the loop variable `attempt`
    pending,      \* per process: rows flushed in the open session, uncommitted
    err,          \* per process: exception being handled ("none" when none)
    initResult,   \* per process: return value of init_database
    seedResult,   \* per process: how seed_database ended
    createCalls,  \* history: create_all calls of the running init_database
    createFails,  \* history: failed create_all calls of the running init_database
    seedCalls,    \* history: seed_database invocations of this startup
    pre,          \* history: table contents when seed_database was invoked
    users0,       \* history: table contents when the behaviour began
    faulted,      \* history: some store call failed other than by uniqueness
    restarts,     \* number of process restarts so far
    resp,         \* per process: the response being sent to the client
    inflight,     \* per process: requests between the entry and exit of get_db
    sess,         \* per process: request-scoped sessions opened and not closed
    pool,         \* per process: connections the engine's pool holds open
    backoff       \* per process: seconds slept by the running retry loop

vars == << tableExists, users, phase, pc, attempt, pending, err, initResult,
           seedResult, createCalls, createFails, seedCalls, pre, users0,
           faulted, restarts, resp, inflight, sess, pool, backoff >>

\* ----------------------------------------------------------------- helpers
\* A response: the route and path parameter it answers, the status code and
\* the JSON body (a list body is held as the set of its items).
Response(route, arg, status, body) ==
    [route |-> route, arg |-> arg, status |-> status, body |-> body]

\* No response has been served yet.
NoResponse == Response("none", 0, 0, [detail |-> "none"])

\* The framework's generic answer to an exception of a handler.
ServerError(route, arg) ==
    Response(route, arg, 500, [detail |-> "Internal Server Error"])

Emails(rows) == { r.email : r \in rows }

MaxId(rows) == IF rows = {} THEN 0
               ELSE CHOOSE m \in { r.id : r \in rows } :
                        \A r \in rows : r.id <= m

\* Rows the store creates for a batch: ids continue after the largest id.
WithIds(batch, rows) ==
    { [id |-> MaxId(rows) + i, name |-> batch[i].name, email |-> batch[i].email]
        : i \in 1..Len(batch) }

\* Variant: the count is read from a snapshot taken before any seeder ran.
CountUsers_Snapshot == Cardinality(users0)

\* db.query(User).count()
CountUsers == Cardinality(users)

\* Variant: the email column carries no unique constraint.
Collides_NoConstraint(batch) == FALSE

\* unique=True on User.email: a batch collides with committed rows
Collides(batch) ==
    \E i \in 1..Len(batch) : batch[i].email \in Emails(users)

\* A fully seeded fresh table.
SeededTable == WithIds(Baseline, {})

\* A table holding a record that is not part of the baseline.
ForeignTable == { [id |-> 1, name |-> "Zed Legacy", email |-> "zed@example.com"] }

\* ------------------------------------------------------------------- Init
Init ==
    /\ \E t \in { <<FALSE, {}>>, <<TRUE, {}>>, <<TRUE, SeededTable>>,
                  <<TRUE, ForeignTable>> } :
          /\ tableExists = t[1]
          /\ users = t[2]
          /\ users0 = t[2]
    /\ phase = [p \in Procs |-> "NotStarted"]
    /\ pc = [p \in Procs |-> "idle"]
    /\ attempt = [p \in Procs |-> 0]
    /\ pending = [p \in Procs |-> << >>]
    /\ err = [p \in Procs |-> "none"]
    /\ initResult = [p \in Procs |-> "none"]
    /\ seedResult = [p \in Procs |-> "none"]
    /\ createCalls = [p \in Procs |-> 0]
    /\ createFails = [p \in Procs |-> 0]
    /\ seedCalls = [p \in Procs |-> 0]
    /\ pre = [p \in Procs |-> {}]
    /\ faulted = FALSE
    /\ restarts = 0
    /\ resp = [p \in Procs |-> NoResponse]
    /\ inflight = [p \in Procs |-> 0]
    /\ sess = [p \in Procs |-> 0]
    /\ pool = [p \in Procs |-> 0]
    /\ backoff = [p \in Procs |-> 0]

\* ------------------------------------------------- application.py: lifespan
\* lifespan is entered: init_database() is called.
lifespan_enter(p) ==
    /\ phase[p] = "NotStarted"
    /\ phase' = [phase EXCEPT ![p] = "Initializing"]
    /\ pc' = [pc EXCEPT ![p] = "create_all"]
    /\ attempt' = [attempt EXCEPT ![p] = 0]
    /\ UNCHANGED << tableExists, users, pending, err, initResult, seedResult,
                    createCalls, createFails, seedCalls, pre, users0, faulted,
                    restarts, resp >>
    /\ UNCHANGED << inflight, sess, pool, backoff >>

\* A store call succeeded on a connection of the engine's pool: the pool
\* opened one unless it held one, and keeps it open when it is returned.
Connect(p) == pool' = [pool EXCEPT ![p] = 1]

\* Outcomes of one call to the store: TRUE it returns, FALSE it raises
\* (connection lost, timeout, cold start, lock, missing table).
StoreOutcomes == IF tableExists THEN {TRUE, FALSE} ELSE {FALSE}

\* A backoff that starts at 2 seconds.
wait_time_FromTwo(k) == 2^(k + 1)

\* wait_time = 2 ** attempt: the seconds slept after failed attempt k,
\* counted from 0, before the next attempt.
wait_time(k) == 2^k

\* Variant: the loop of init_database runs one attempt too many.
init_database_ExtraAttempt(p) ==
    /\ phase[p] = "Initializing"
    /\ pc[p] = "create_all"
    /\ createCalls' = [createCalls EXCEPT ![p] = @ + 1]
    /\ \E ok \in BOOLEAN :
         IF ok
         THEN /\ tableExists' = TRUE
              /\ initResult' = [initResult EXCEPT ![p] = "True"]
              /\ pc' = [pc EXCEPT ![p] = "idle"]
              /\ Connect(p)
              /\ UNCHANGED << attempt, createFails, faulted, backoff >>
         ELSE /\ faulted' = TRUE
              /\ createFails' = [createFails EXCEPT ![p] = @ + 1]
              /\ IF attempt[p] < InitMaxRetries
                 THEN /\ attempt' = [attempt EXCEPT ![p] = @ + 1]
                      /\ backoff' = [backoff EXCEPT ![p] = @ + wait_time(attempt[p])]
                      /\ UNCHANGED << initResult, pc >>
                 ELSE /\ initResult' = [initResult EXCEPT ![p] = "False"]
                      /\ pc' = [pc EXCEPT ![p] = "idle"]
                      /\ UNCHANGED << attempt, backoff >>
              /\ UNCHANGED << tableExists, pool >>
    /\ UNCHANGED << users, phase, pending, err, seedResult, seedCalls, pre,
                    users0, restarts, resp >>
    /\ UNCHANGED << inflight, sess >>

\* One pass of the loop of init_database: a create_all call, then either
\* `return True`, or the except branch (log, sleep, next attempt), or, after
\* the last attempt, `return False`.
init_database(p) ==
    /\ phase[p] = "Initializing"
    /\ pc[p] = "create_all"
    /\ createCalls' = [createCalls EXCEPT ![p] = @ + 1]
    /\ \E ok \in BOOLEAN :
         IF ok
         THEN /\ tableExists' = TRUE
              /\ initResult' = [initResult EXCEPT ![p] = "True"]
              /\ pc' = [pc EXCEPT ![p] = "idle"]
              /\ Connect(p)
              /\ UNCHANGED << attempt, createFails, faulted, backoff >>
         ELSE /\ faulted' = TRUE
              /\ createFails' = [createFails EXCEPT ![p] = @ + 1]
              /\ IF attempt[p] < InitMaxRetries - 1
                 THEN /\ attempt' = [attempt EXCEPT ![p] = @ + 1]
                      /\ backoff' = [backoff EXCEPT ![p] = @ + wait_time(attempt[p])]
                      /\ UNCHANGED << initResult, pc >>
                 ELSE /\ initResult' = [initResult EXCEPT ![p] = "False"]
                      /\ pc' = [pc EXCEPT ![p] = "idle"]
                      /\ UNCHANGED << attempt, backoff >>
              /\ UNCHANGED << tableExists, pool >>
    /\ UNCHANGED << users, phase, pending, err, seedResult, seedCalls, pre,
                    users0, restarts, resp >>
    /\ UNCHANGED << inflight, sess >>

\* Variant: lifespan calls seed_database whatever init_database returned.
lifespan_branch_AlwaysSeed(p) ==
    /\ phase[p] = "Initializing"
    /\ initResult[p] # "none"
    /\ phase' = [phase EXCEPT ![p] = "Seeding"]
    /\ pc' = [pc EXCEPT ![p] = "count"]
    /\ seedResult' = [seedResult EXCEPT ![p] = "running"]
    /\ seedCalls' = [seedCalls EXCEPT ![p] = @ + 1]
    /\ pre' = [pre EXCEPT ![p] = users]
    /\ attempt' = [attempt EXCEPT ![p] = 0]
    /\ backoff' = [backoff EXCEPT ![p] = 0]
    /\ createCalls' = [createCalls EXCEPT ![p] = 0]
    /\ createFails' = [createFails EXCEPT ![p] = 0]
    /\ UNCHANGED << tableExists, users, pending, err, initResult, users0,
                    faulted, restarts, resp >>
    /\ UNCHANGED << inflight, sess, pool >>

\* `if init_database(): seed_database() else: logger.error(...)`.
\* Calling seed_database enters its loop and opens the first session.
lifespan_branch(p) ==
    /\ phase[p] = "Initializing"
    /\ initResult[p] # "none"
    /\ IF initResult[p] = "True"
       THEN /\ phase' = [phase EXCEPT ![p] = "Seeding"]
            /\ pc' = [pc EXCEPT ![p] = "count"]
            /\ seedResult' = [seedResult EXCEPT ![p] = "running"]
            /\ seedCalls' = [seedCalls EXCEPT ![p] = @ + 1]
            /\ pre' = [pre EXCEPT ![p] = users]
       ELSE /\ phase' = [phase EXCEPT ![p] = "InitFailed"]
            /\ UNCHANGED << pc, seedResult, seedCalls, pre >>
    /\ attempt' = [attempt EXCEPT ![p] = 0]
    /\ backoff' = [backoff EXCEPT ![p] = 0]
    /\ createCalls' = [createCalls EXCEPT ![p] = 0]
    /\ createFails' = [createFails EXCEPT ![p] = 0]
    /\ UNCHANGED << tableExists, users, pending, err, initResult, users0,
                    faulted, restarts, resp >>
    /\ UNCHANGED << inflight, sess, pool >>

\* ------------------------------------------- application.py: seed_database
\* An exception of kind k is raised inside the try block: control moves to
\* the except branch.
Raise(p, k) ==
    /\ err' = [err EXCEPT ![p] = k]
    /\ pc' = [pc EXCEPT ![p] = "except"]
    /\ faulted' = (faulted \/ k # "IntegrityError")

\* `return` from the try block (the finally branch closes the session).
ReturnOk(p) ==
    /\ seedResult' = [seedResult EXCEPT ![p] = "returned"]
    /\ pc' = [pc EXCEPT ![p] = "idle"]
    /\ UNCHANGED << err, faulted >>

\* Variant: seed_database inserts without looking at the count.
seed_database_count_NoCheck(p) ==
    /\ phase[p] = "Seeding"
    /\ pc[p] = "count"
    /\ \E ok \in StoreOutcomes :
         IF ~ok
         THEN Raise(p, "OperationalError") /\ UNCHANGED << seedResult, pool >>
         ELSE /\ pc' = [pc EXCEPT ![p] = "insert"]
              /\ Connect(p)
              /\ UNCHANGED << err, faulted, seedResult >>
    /\ UNCHANGED << tableExists, users, phase, attempt, pending, initResult,
                    createCalls, createFails, seedCalls, pre, users0,
                    restarts, resp >>
    /\ UNCHANGED << inflight, sess, backoff >>

\* Variant: the test of the count is inverted.
seed_database_count_Inverted(p) ==
    /\ phase[p] = "Seeding"
    /\ pc[p] = "count"
    /\ \E ok \in StoreOutcomes :
         IF ~ok
         THEN Raise(p, "OperationalError") /\ UNCHANGED << seedResult, pool >>
         ELSE IF CountUsers # 0
              THEN /\ pc' = [pc EXCEPT ![p] = "insert"]
                   /\ Connect(p)
                   /\ UNCHANGED << err, faulted, seedResult >>
              ELSE ReturnOk(p) /\ Connect(p)
    /\ UNCHANGED << tableExists, users, phase, attempt, pending, initResult,
                    createCalls, createFails, seedCalls, pre, users0,
                    restarts, resp >>
    /\ UNCHANGED << inflight, sess, backoff >>

\* db.query(User).count() == 0
seed_database_count(p) ==
    /\ phase[p] = "Seeding"
    /\ pc[p] = "count"
    /\ \E ok \in StoreOutcomes :
         IF ~ok
         THEN Raise(p, "OperationalError") /\ UNCHANGED << seedResult, pool >>
         ELSE IF CountUsers = 0
              THEN /\ pc' = [pc EXCEPT ![p] = "insert"]
                   /\ Connect(p)
                   /\ UNCHANGED << err, faulted, seedResult >>
              ELSE ReturnOk(p) /\ Connect(p)
    /\ UNCHANGED << tableExists, users, phase, attempt, pending, initResult,
                    createCalls, createFails, seedCalls, pre, users0,
                    restarts, resp >>
    /\ UNCHANGED << inflight, sess, backoff >>

\* db.add_all(users) and the INSERT statements that db.commit() flushes.
seed_database_insert(p) ==
    /\ phase[p] = "Seeding"
    /\ pc[p] = "insert"
    /\ \E ok \in StoreOutcomes :
         IF ~ok
         THEN Raise(p, "OperationalError") /\ UNCHANGED pending
         ELSE IF Collides(Baseline)
              THEN Raise(p, "IntegrityError") /\ UNCHANGED pending
              ELSE /\ pending' = [pending EXCEPT ![p] = Baseline]
                   /\ pc' = [pc EXCEPT ![p] = "commit"]
                   /\ UNCHANGED << err, faulted >>
    /\ UNCHANGED << tableExists, users, phase, attempt, initResult, seedResult,
                    createCalls, createFails, seedCalls, pre, users0,
                    restarts, resp >>
    /\ UNCHANGED << inflight, sess, pool, backoff >>

\* Variant: a failing commit leaves the rows flushed so far in the table.
seed_database_commit_Partial(p) ==
    /\ phase[p] = "Seeding"
    /\ pc[p] = "commit"
    /\ \E ok \in StoreOutcomes :
         IF ~ok
         THEN /\ Raise(p, "OperationalError")
              /\ users' = users \cup WithIds(SubSeq(pending[p], 1, 2), users)
              /\ UNCHANGED << pending, seedResult >>
         ELSE IF Collides(pending[p])
              THEN Raise(p, "IntegrityError") /\ UNCHANGED << users, pending, seedResult >>
              ELSE /\ users' = users \cup WithIds(pending[p], users)
                   /\ pending' = [pending EXCEPT ![p] = << >>]
                   /\ ReturnOk(p)
    /\ UNCHANGED << tableExists, phase, attempt, initResult, createCalls,
                    createFails, seedCalls, pre, users0, restarts, resp >>
    /\ UNCHANGED << inflight, sess, pool, backoff >>

\* The COMMIT of db.commit(): the whole batch becomes visible, or none of it.
seed_database_commit(p) ==
    /\ phase[p] = "Seeding"
    /\ pc[p] = "commit"
    /\ \E ok \in StoreOutcomes :
         IF ~ok
         THEN Raise(p, "OperationalError") /\ UNCHANGED << users, pending, seedResult >>
         ELSE IF Collides(pending[p])
              THEN Raise(p, "IntegrityError") /\ UNCHANGED << users, pending, seedResult >>
              ELSE /\ users' = users \cup WithIds(pending[p], users)
                   /\ pending' = [pending EXCEPT ![p] = << >>]
                   /\ ReturnOk(p)
    /\ UNCHANGED << tableExists, phase, attempt, initResult, createCalls,
                    createFails, seedCalls, pre, users0, restarts, resp >>
    /\ UNCHANGED << inflight, sess, pool, backoff >>

\* The except branch: db.rollback(), the warning, the sleep; then finally
\* closes the session and the loop goes on, or ends after the last attempt.
\* An exception of db.rollback() itself leaves seed_database.
seed_database_except(p) ==
    /\ phase[p] = "Seeding"
    /\ pc[p] = "except"
    /\ pending' = [pending EXCEPT ![p] = << >>]
    /\ \E ok \in {TRUE, FALSE} :
         IF ok
         THEN /\ err' = [err EXCEPT ![p] = "none"]
              /\ IF attempt[p] < SeedMaxRetries - 1
                 THEN /\ attempt' = [attempt EXCEPT ![p] = @ + 1]
                      /\ pc' = [pc EXCEPT ![p] = "count"]
                      /\ backoff' = [backoff EXCEPT ![p] = @ + wait_time(attempt[p])]
                      /\ UNCHANGED seedResult
                 ELSE /\ seedResult' = [seedResult EXCEPT ![p] = "exhausted"]
                      /\ pc' = [pc EXCEPT ![p] = "idle"]
                      /\ UNCHANGED << attempt, backoff >>
              /\ UNCHANGED faulted
         ELSE /\ err' = [err EXCEPT ![p] = "OperationalError"]
              /\ seedResult' = [seedResult EXCEPT ![p] = "raised"]
              /\ pc' = [pc EXCEPT ![p] = "idle"]
              /\ faulted' = TRUE
              /\ UNCHANGED << attempt, backoff >>
    /\ UNCHANGED << tableExists, users, phase, initResult, createCalls,
                    createFails, seedCalls, pre, users0, restarts, resp >>
    /\ UNCHANGED << inflight, sess, pool >>

\* ------------------------------------------ application.py: lifespan, end
\* Variant: lifespan yields without waiting for seed_database to return.
lifespan_yield_Early(p) ==
    /\ \/ phase[p] = "InitFailed"
       \/ phase[p] = "Seeding"
    /\ phase' = [phase EXCEPT ![p] = "Ready"]
    /\ seedResult' = [seedResult EXCEPT ![p] = "none"]
    /\ attempt' = [attempt EXCEPT ![p] = 0]
    /\ backoff' = [backoff EXCEPT ![p] = 0]
    /\ pre' = [pre EXCEPT ![p] = {}]
    /\ UNCHANGED << tableExists, users, pc, pending, err, initResult,
                    createCalls, createFails, seedCalls, users0, faulted,
                    restarts, resp >>
    /\ UNCHANGED << inflight, sess, pool >>

\* `yield`: startup is complete and the framework starts serving requests.
lifespan_yield(p) ==
    /\ \/ phase[p] = "InitFailed"
       \/ phase[p] = "Seeding" /\ seedResult[p] \in {"returned", "exhausted"}
    /\ phase' = [phase EXCEPT ![p] = "Ready"]
    /\ seedResult' = [seedResult EXCEPT ![p] = "none"]
    /\ attempt' = [attempt EXCEPT ![p] = 0]
    /\ backoff' = [backoff EXCEPT ![p] = 0]
    /\ pre' = [pre EXCEPT ![p] = {}]
    /\ UNCHANGED << tableExists, users, pc, pending, err, initResult,
                    createCalls, createFails, seedCalls, users0, faulted,
                    restarts, resp >>
    /\ UNCHANGED << inflight, sess, pool >>

\* An exception leaves lifespan before its yield: startup fails and the
\* process exits without serving.
lifespan_raise(p) ==
    /\ phase[p] = "Seeding"
    /\ seedResult[p] = "raised"
    /\ phase' = [phase EXCEPT ![p] = "Crashed"]
    /\ seedResult' = [seedResult EXCEPT ![p] = "none"]
    /\ err' = [err EXCEPT ![p] = "none"]
    /\ attempt' = [attempt EXCEPT ![p] = 0]
    /\ backoff' = [backoff EXCEPT ![p] = 0]
    /\ pre' = [pre EXCEPT ![p] = {}]
    /\ UNCHANGED << tableExists, users, pc, pending, initResult, createCalls,
                    createFails, seedCalls, users0, faulted, restarts, resp >>
    /\ UNCHANGED << inflight, sess, pool >>

\* The code after `yield`: the shutdown log line, then lifespan ends.
lifespan_shutdown(p) ==
    /\ phase[p] = "Ready"
    /\ inflight[p] = 0
    /\ resp[p] = NoResponse
    /\ phase' = [phase EXCEPT ![p] = "ShuttingDown"]
    /\ UNCHANGED << tableExists, users, pc, attempt, pending, err, initResult,
                    seedResult, createCalls, createFails, seedCalls, pre,
                    users0, faulted, restarts, resp >>
    /\ UNCHANGED << inflight, sess, pool, backoff >>

lifespan_exit(p) ==
    /\ phase[p] = "ShuttingDown"
    /\ phase' = [phase EXCEPT ![p] = "Stopped"]
    /\ UNCHANGED << tableExists, users, pc, attempt, pending, err, initResult,
                    seedResult, createCalls, createFails, seedCalls, pre,
                    users0, faulted, restarts, resp >>
    /\ UNCHANGED << inflight, sess, pool, backoff >>

\* The process is started again (a restart of the worker).
process_restart(p) ==
    /\ phase[p] \in {"Stopped", "Crashed"}
    /\ restarts < MaxRestarts
    /\ restarts' = restarts + 1
    /\ phase' = [phase EXCEPT ![p] = "NotStarted"]
    /\ initResult' = [initResult EXCEPT ![p] = "none"]
    /\ seedCalls' = [seedCalls EXCEPT ![p] = 0]
    /\ resp' = [resp EXCEPT ![p] = NoResponse]
    /\ pool' = [pool EXCEPT ![p] = 0]
    /\ UNCHANGED << tableExists, users, pc, attempt, pending, err, seedResult,
                    createCalls, createFails, pre, users0, faulted >>
    /\ UNCHANGED << inflight, sess, backoff >>

\* ------------------------------------------------ request handlers (static)
\* Requests are routed to a handler only while the application is between
\* the yield of lifespan and its shutdown.
Serving(p) == phase[p] = "Ready"

\* GET /
root(p) ==
    /\ Serving(p)
    /\ resp[p] = NoResponse
    /\ resp' = [resp EXCEPT ![p] = Response("/", 0, 200,
                 [message |-> "Azure SWA Demo API", status |-> "healthy"])]
    /\ UNCHANGED << tableExists, users, phase, pc, attempt, pending, err,
                    initResult, seedResult, createCalls, createFails,
                    seedCalls, pre, users0, faulted, restarts >>
    /\ UNCHANGED << inflight, sess, pool, backoff >>

\* A health check that probes the store with a round trip.
health_check_Ping(p) ==
    /\ Serving(p)
    /\ resp[p] = NoResponse
    /\ \E ok \in StoreOutcomes :
          IF ok
          THEN /\ resp' = [resp EXCEPT ![p] = Response("/health", 0, 200,
                              [status |-> "healthy"])]
               /\ Connect(p)
          ELSE /\ resp' = [resp EXCEPT ![p] = ServerError("/health", 0)]
               /\ UNCHANGED pool
    /\ UNCHANGED << tableExists, users, phase, pc, attempt, pending, err,
                    initResult, seedResult, createCalls, createFails,
                    seedCalls, pre, users0, faulted, restarts >>
    /\ UNCHANGED << inflight, sess, backoff >>

\* GET /health
health_check(p) ==
    /\ Serving(p)
    /\ resp[p] = NoResponse
    /\ resp' = [resp EXCEPT ![p] = Response("/health", 0, 200,
                 [status |-> "healthy"])]
    /\ UNCHANGED << tableExists, users, phase, pc, attempt, pending, err,
                    initResult, seedResult, createCalls, createFails,
                    seedCalls, pre, users0, faulted, restarts >>
    /\ UNCHANGED << inflight, sess, pool, backoff >>

\* ------------------------------------- request handlers using the store
\* Requests one process holds between the entry and the exit of get_db.
MaxInFlight == 2
\* Processes that take requests using the store.
ServeProcs == 1

\* Path parameters clients send to GET /users/{user_id}.
UserIds == {1, 999999}

\* get_db up to its yield: `db = SessionLocal()`.  The session takes a
\* connection from the pool only when the handler issues its query.
get_db(p) ==
    /\ Serving(p)
    /\ inflight[p] < MaxInFlight
    /\ inflight' = [inflight EXCEPT ![p] = @ + 1]
    /\ sess' = [sess EXCEPT ![p] = @ + 1]
    /\ UNCHANGED << tableExists, users, phase, pc, attempt, pending, err,
                    initResult, seedResult, createCalls, createFails,
                    seedCalls, pre, users0, faulted, restarts, resp, pool,
                    backoff >>

\* Variant: get_db closes the session after the yield without try/finally,
\* so only when the handler returned normally.
get_db_exit_NoFinally(p, how) ==
    /\ inflight' = [inflight EXCEPT ![p] = @ - 1]
    /\ sess' = [sess EXCEPT ![p] = IF how = "return" THEN @ - 1 ELSE @]

\* get_db after its yield: the generator is resumed when the handler has
\* returned ("return"), thrown into when it raised ("raise") and closed when
\* the request was cancelled ("cancel"); `finally: db.close()` runs in all.
get_db_exit(p, how) ==
    /\ inflight' = [inflight EXCEPT ![p] = @ - 1]
    /\ sess' = [sess EXCEPT ![p] = @ - 1]

\* The projection {"id": u.id, "name": u.name, "email": u.email}.
Project(u) == [id |-> u.id, name |-> u.name, email |-> u.email]

\* get_users: db.query(User).all() and the list of projections.
get_users_response(rows) ==
    Response("/users", 0, 200, [items |-> { Project(u) : u \in rows }])

\* A get_user that answers an unknown id with a not-found status.
get_user_response_NotFound404(rows, user_id) ==
    LET found == { u \in rows : u.id = user_id }
    IN  IF found = {}
        THEN Response("/users/{user_id}", user_id, 404,
                      [error |-> "User not found"])
        ELSE Response("/users/{user_id}", user_id, 200,
                      Project(CHOOSE u \in found : TRUE))

\* get_user: filter(User.id == user_id).first(), then the error body with
\* the default status when there is no such row, else the projection.
get_user_response(rows, user_id) ==
    LET found == { u \in rows : u.id = user_id }
    IN  IF found = {}
        THEN Response("/users/{user_id}", user_id, 200,
                      [error |-> "User not found"])
        ELSE Response("/users/{user_id}", user_id, 200,
                      Project(CHOOSE u \in found : TRUE))

\* GET /users: the handler, then the exit of get_db.
get_users(p) ==
    /\ inflight[p] > 0
    /\ resp[p] = NoResponse
    /\ \E ok \in StoreOutcomes :
         IF ok
         THEN /\ resp' = [resp EXCEPT ![p] = get_users_response(users)]
              /\ Connect(p)
              /\ get_db_exit(p, "return")
              /\ UNCHANGED faulted
         ELSE /\ resp' = [resp EXCEPT ![p] = ServerError("/users", 0)]
              /\ get_db_exit(p, "raise")
              /\ faulted' = TRUE
              /\ UNCHANGED pool
    /\ UNCHANGED << tableExists, users, phase, pc, attempt, pending, err,
                    initResult, seedResult, createCalls, createFails,
                    seedCalls, pre, users0, restarts, backoff >>

\* A get_user that registers a row for an id it does not find.
get_user_Registering(p) ==
    /\ inflight[p] > 0
    /\ resp[p] = NoResponse
    /\ \E user_id \in UserIds, ok \in StoreOutcomes :
         IF ok
         THEN /\ resp' = [resp EXCEPT ![p] = get_user_response(users, user_id)]
              /\ users' = IF \E u \in users : u.id = user_id
                          THEN users
                          ELSE users \cup {[id |-> user_id, name |-> "Guest",
                                            email |-> "guest@example.com"]}
              /\ Connect(p)
              /\ get_db_exit(p, "return")
              /\ UNCHANGED faulted
         ELSE /\ resp' = [resp EXCEPT ![p] =
                             ServerError("/users/{user_id}", user_id)]
              /\ get_db_exit(p, "raise")
              /\ faulted' = TRUE
              /\ UNCHANGED << users, pool >>
    /\ UNCHANGED << tableExists, phase, pc, attempt, pending, err,
                    initResult, seedResult, createCalls, createFails,
                    seedCalls, pre, users0, restarts, backoff >>

\* GET /users/{user_id}: the handler, then the exit of get_db.
get_user(p) ==
    /\ inflight[p] > 0
    /\ resp[p] = NoResponse
    /\ \E user_id \in UserIds, ok \in StoreOutcomes :
         IF ok
         THEN /\ resp' = [resp EXCEPT ![p] = get_user_response(users, user_id)]
              /\ Connect(p)
              /\ get_db_exit(p, "return")
              /\ UNCHANGED faulted
         ELSE /\ resp' = [resp EXCEPT ![p] =
                             ServerError("/users/{user_id}", user_id)]
              /\ get_db_exit(p, "raise")
              /\ faulted' = TRUE
              /\ UNCHANGED pool
    /\ UNCHANGED << tableExists, users, phase, pc, attempt, pending, err,
                    initResult, seedResult, createCalls, createFails,
                    seedCalls, pre, users0, restarts, backoff >>

\* The client goes away while its request holds a session: the request is
\* cancelled and no response is served.
request_cancelled(p) ==
    /\ inflight[p] > 0
    /\ get_db_exit(p, "cancel")
    /\ UNCHANGED << tableExists, users, phase, pc, attempt, pending, err,
                    initResult, seedResult, createCalls, createFails,
                    seedCalls, pre, users0, faulted, restarts, resp, pool,
                    backoff >>

\* The response has been sent to the client.
response_sent(p) ==
    /\ resp[p] # NoResponse
    /\ resp' = [resp EXCEPT ![p] = NoResponse]
    /\ UNCHANGED << tableExists, users, phase, pc, attempt, pending, err,
                    initResult, seedResult, createCalls, createFails,
                    seedCalls, pre, users0, faulted, restarts, inflight,
                    sess, pool, backoff >>

\* ------------------------------------------------------------ specification
\* The life cycle of every process and the requests that use no store.
Next ==
    \E p \in Procs :
        \/ lifespan_enter(p)
        \/ init_database(p)
        \/ lifespan_branch(p)
        \/ seed_database_count(p)
        \/ seed_database_insert(p)
        \/ seed_database_commit(p)
        \/ seed_database_except(p)
        \/ lifespan_yield(p)
        \/ lifespan_raise(p)
        \/ lifespan_shutdown(p)
        \/ lifespan_exit(p)
        \/ process_restart(p)
        \/ root(p)
        \/ health_check(p)
        \/ response_sent(p)

Spec == Init /\ [][Next]_vars

\* The same processes, also taking the requests that use the store.
NextServe ==
    \E p \in 1..ServeProcs :
        \/ lifespan_enter(p)
        \/ init_database(p)
        \/ lifespan_branch(p)
        \/ seed_database_count(p)
        \/ seed_database_insert(p)
        \/ seed_database_commit(p)
        \/ seed_database_except(p)
        \/ lifespan_yield(p)
        \/ lifespan_raise(p)
        \/ lifespan_shutdown(p)
        \/ lifespan_exit(p)
        \/ process_restart(p)
        \/ root(p)
        \/ health_check(p)
        \/ get_db(p)
        \/ get_users(p)
        \/ get_user(p)
        \/ request_cancelled(p)
        \/ response_sent(p)

SpecServe == Init /\ [][NextServe]_vars

\* ====================================================== backend/main.py
\* The single-attempt variant: lifespan calls create_all unguarded, then a
\* seed_database without a retry loop.

\* lifespan is entered: Base.metadata.create_all is about to be called.
main_lifespan_enter(p) ==
    /\ phase[p] = "NotStarted"
    /\ phase' = [phase EXCEPT ![p] = "Initializing"]
    /\ pc' = [pc EXCEPT ![p] = "create_all"]
    /\ UNCHANGED << tableExists, users, attempt, pending, err, initResult,
                    seedResult, createCalls, createFails, seedCalls, pre,
                    users0, faulted, restarts, resp >>
    /\ UNCHANGED << inflight, sess, pool, backoff >>

\* Base.metadata.create_all(bind=engine), outside any try block, followed by
\* the call of seed_database, which opens its session.
main_lifespan_create_all(p) ==
    /\ phase[p] = "Initializing"
    /\ pc[p] = "create_all"
    /\ \E ok \in BOOLEAN :
         IF ok
         THEN /\ tableExists' = TRUE
              /\ phase' = [phase EXCEPT ![p] = "Seeding"]
              /\ pc' = [pc EXCEPT ![p] = "count"]
              /\ seedResult' = [seedResult EXCEPT ![p] = "running"]
              /\ seedCalls' = [seedCalls EXCEPT ![p] = @ + 1]
              /\ pre' = [pre EXCEPT ![p] = users]
              /\ Connect(p)
              /\ UNCHANGED << err, faulted >>
         ELSE /\ phase' = [phase EXCEPT ![p] = "Crashed"]
              /\ pc' = [pc EXCEPT ![p] = "idle"]
              /\ faulted' = TRUE
              /\ UNCHANGED << tableExists, err, seedResult, seedCalls, pre, pool >>
    /\ UNCHANGED << users, attempt, pending, initResult, createCalls,
                    createFails, users0, restarts, resp >>
    /\ UNCHANGED << inflight, sess, backoff >>

\* db.query(User).count() == 0
main_seed_database_count(p) ==
    /\ phase[p] = "Seeding"
    /\ pc[p] = "count"
    /\ \E ok \in StoreOutcomes :
         IF ~ok
         THEN Raise(p, "OperationalError") /\ UNCHANGED << seedResult, pool >>
         ELSE IF CountUsers = 0
              THEN /\ pc' = [pc EXCEPT ![p] = "insert"]
                   /\ Connect(p)
                   /\ UNCHANGED << err, faulted, seedResult >>
              ELSE ReturnOk(p) /\ Connect(p)
    /\ UNCHANGED << tableExists, users, phase, attempt, pending, initResult,
                    createCalls, createFails, seedCalls, pre, users0,
                    restarts, resp >>
    /\ UNCHANGED << inflight, sess, backoff >>

\* db.add_all(users) and the INSERT statements that db.commit() flushes.
main_seed_database_insert(p) ==
    /\ phase[p] = "Seeding"
    /\ pc[p] = "insert"
    /\ \E ok \in StoreOutcomes :
         IF ~ok
         THEN Raise(p, "OperationalError") /\ UNCHANGED pending
         ELSE IF Collides(Baseline)
              THEN Raise(p, "IntegrityError") /\ UNCHANGED pending
              ELSE /\ pending' = [pending EXCEPT ![p] = Baseline]
                   /\ pc' = [pc EXCEPT ![p] = "commit"]
                   /\ UNCHANGED << err, faulted >>
    /\ UNCHANGED << tableExists, users, phase, attempt, initResult, seedResult,
                    createCalls, createFails, seedCalls, pre, users0,
                    restarts, resp >>
    /\ UNCHANGED << inflight, sess, pool, backoff >>

\* The COMMIT of db.commit().
main_seed_database_commit(p) ==
    /\ phase[p] = "Seeding"
    /\ pc[p] = "commit"
    /\ \E ok \in StoreOutcomes :
         IF ~ok
         THEN Raise(p, "OperationalError") /\ UNCHANGED << users, pending, seedResult >>
         ELSE IF Collides(pending[p])
              THEN Raise(p, "IntegrityError") /\ UNCHANGED << users, pending, seedResult >>
              ELSE /\ users' = users \cup WithIds(pending[p], users)
                   /\ pending' = [pending EXCEPT ![p] = << >>]
                   /\ ReturnOk(p)
    /\ UNCHANGED << tableExists, phase, attempt, initResult, createCalls,
                    createFails, seedCalls, pre, users0, restarts, resp >>
    /\ UNCHANGED << inflight, sess, pool, backoff >>

\* The except branch: db.rollback() and the print; the function then returns
\* normally.  An exception of db.rollback() itself leaves seed_database.
main_seed_database_except(p) ==
    /\ phase[p] = "Seeding"
    /\ pc[p] = "except"
    /\ pending' = [pending EXCEPT ![p] = << >>]
    /\ pc' = [pc EXCEPT ![p] = "idle"]
    /\ \E ok \in {TRUE, FALSE} :
         IF ok
         THEN /\ err' = [err EXCEPT ![p] = "none"]
              /\ seedResult' = [seedResult EXCEPT ![p] = "swallowed"]
              /\ UNCHANGED faulted
         ELSE /\ err' = [err EXCEPT ![p] = "OperationalError"]
              /\ seedResult' = [seedResult EXCEPT ![p] = "raised"]
              /\ faulted' = TRUE
    /\ UNCHANGED << tableExists, users, phase, attempt, initResult,
                    createCalls, createFails, seedCalls, pre, users0,
                    restarts, resp >>
    /\ UNCHANGED << inflight, sess, pool, backoff >>

\* `yield` of main.py's lifespan.
main_lifespan_yield(p) ==
    /\ phase[p] = "Seeding"
    /\ seedResult[p] \in {"returned", "swallowed"}
    /\ phase' = [phase EXCEPT ![p] = "Ready"]
    /\ seedResult' = [seedResult EXCEPT ![p] = "none"]
    /\ pre' = [pre EXCEPT ![p] = {}]
    /\ UNCHANGED << tableExists, users, pc, attempt, pending, err, initResult,
                    createCalls, createFails, seedCalls, users0, faulted,
                    restarts, resp >>
    /\ UNCHANGED << inflight, sess, pool, backoff >>

\* An exception of seed_database leaves lifespan before its yield.
main_lifespan_raise(p) ==
    /\ phase[p] = "Seeding"
    /\ seedResult[p] = "raised"
    /\ phase' = [phase EXCEPT ![p] = "Crashed"]
    /\ seedResult' = [seedResult EXCEPT ![p] = "none"]
    /\ err' = [err EXCEPT ![p] = "none"]
    /\ pre' = [pre EXCEPT ![p] = {}]
    /\ UNCHANGED << tableExists, users, pc, attempt, pending, initResult,
                    createCalls, createFails, seedCalls, users0, faulted,
                    restarts, resp >>
    /\ UNCHANGED << inflight, sess, pool, backoff >>

\* Nothing follows the yield of main.py's lifespan: shutdown ends it.
main_lifespan_shutdown(p) ==
    /\ phase[p] = "Ready"
    /\ inflight[p] = 0
    /\ resp[p] = NoResponse
    /\ phase' = [phase EXCEPT ![p] = "Stopped"]
    /\ UNCHANGED << tableExists, users, pc, attempt, pending, err, initResult,
                    seedResult, createCalls, createFails, seedCalls, pre,
                    users0, faulted, restarts, resp >>
    /\ UNCHANGED << inflight, sess, pool, backoff >>

\* GET /
main_root(p) ==
    /\ Serving(p)
    /\ resp[p] = NoResponse
    /\ resp' = [resp EXCEPT ![p] = Response("/", 0, 200,
                 [message |-> "Azure SWA Demo API", status |-> "healthy"])]
    /\ UNCHANGED << tableExists, users, phase, pc, attempt, pending, err,
                    initResult, seedResult, createCalls, createFails,
                    seedCalls, pre, users0, faulted, restarts >>
    /\ UNCHANGED << inflight, sess, pool, backoff >>

\* GET /health
main_health_check(p) ==
    /\ Serving(p)
    /\ resp[p] = NoResponse
    /\ resp' = [resp EXCEPT ![p] = Response("/health", 0, 200,
                 [status |-> "healthy"])]
    /\ UNCHANGED << tableExists, users, phase, pc, attempt, pending, err,
                    initResult, seedResult, createCalls, createFails,
                    seedCalls, pre, users0, faulted, restarts >>
    /\ UNCHANGED << inflight, sess, pool, backoff >>

\* ------------------------------- main.py: request handlers using the store
\* get_db up to its yield: `db = SessionLocal()`.
main_get_db(p) ==
    /\ Serving(p)
    /\ inflight[p] < MaxInFlight
    /\ inflight' = [inflight EXCEPT ![p] = @ + 1]
    /\ sess' = [sess EXCEPT ![p] = @ + 1]
    /\ UNCHANGED << tableExists, users, phase, pc, attempt, pending, err,
                    initResult, seedResult, createCalls, createFails,
                    seedCalls, pre, users0, faulted, restarts, resp, pool,
                    backoff >>

\* get_db after its yield: `finally: db.close()`.
main_get_db_exit(p, how) ==
    /\ inflight' = [inflight EXCEPT ![p] = @ - 1]
    /\ sess' = [sess EXCEPT ![p] = @ - 1]

\* get_users of main.py: db.query(User).all() and the list of projections.
main_get_users_response(rows) ==
    Response("/users", 0, 200,
             [items |-> { [id |-> u.id, name |-> u.name, email |-> u.email]
                            : u \in rows }])

\* A get_user of main.py that raises HTTPException(404) for an unknown id.
main_get_user_response_Http404(rows, user_id) ==
    IF \E u \in rows : u.id = user_id
    THEN LET user == CHOOSE u \in rows : u.id = user_id
         IN  Response("/users/{user_id}", user_id, 200,
                      [id |-> user.id, name |-> user.name,
                       email |-> user.email])
    ELSE Response("/users/{user_id}", user_id, 404,
                  [detail |-> "User not found"])

\* get_user of main.py: `if user is None` gives the error body as an
\* ordinary return value, else the projection of the row.
main_get_user_response(rows, user_id) ==
    IF \E u \in rows : u.id = user_id
    THEN LET user == CHOOSE u \in rows : u.id = user_id
         IN  Response("/users/{user_id}", user_id, 200,
                      [id |-> user.id, name |-> user.name,
                       email |-> user.email])
    ELSE Response("/users/{user_id}", user_id, 200,
                  [error |-> "User not found"])

\* GET /users of main.py: the handler, then the exit of get_db.
main_get_users(p) ==
    /\ inflight[p] > 0
    /\ resp[p] = NoResponse
    /\ \E ok \in StoreOutcomes :
         IF ok
         THEN /\ resp' = [resp EXCEPT ![p] = main_get_users_response(users)]
              /\ Connect(p)
              /\ main_get_db_exit(p, "return")
              /\ UNCHANGED faulted
         ELSE /\ resp' = [resp EXCEPT ![p] = ServerError("/users", 0)]
              /\ main_get_db_exit(p, "raise")
              /\ faulted' = TRUE
              /\ UNCHANGED pool
    /\ UNCHANGED << tableExists, users, phase, pc, attempt, pending, err,
                    initResult, seedResult, createCalls, createFails,
                    seedCalls, pre, users0, restarts, backoff >>

\* GET /users/{user_id} of main.py: the handler, then the exit of get_db.
main_get_user(p) ==
    /\ inflight[p] > 0
    /\ resp[p] = NoResponse
    /\ \E user_id \in UserIds, ok \in StoreOutcomes :
         IF ok
         THEN /\ resp' = [resp EXCEPT ![p] =
                             main_get_user_response(users, user_id)]
              /\ Connect(p)
              /\ main_get_db_exit(p, "return")
              /\ UNCHANGED faulted
         ELSE /\ resp' = [resp EXCEPT ![p] =
                             ServerError("/users/{user_id}", user_id)]
              /\ main_get_db_exit(p, "raise")
              /\ faulted' = TRUE
              /\ UNCHANGED pool
    /\ UNCHANGED << tableExists, users, phase, pc, attempt, pending, err,
                    initResult, seedResult, createCalls, createFails,
                    seedCalls, pre, users0, restarts, backoff >>

\* The client of a main.py request goes away while it holds a session.
main_request_cancelled(p) ==
    /\ inflight[p] > 0
    /\ main_get_db_exit(p, "cancel")
    /\ UNCHANGED << tableExists, users, phase, pc, attempt, pending, err,
                    initResult, seedResult, createCalls, createFails,
                    seedCalls, pre, users0, faulted, restarts, resp, pool,
                    backoff >>

\* ---------------------------------------------- main.py: specification
NextMain ==
    \E p \in Procs :
        \/ main_lifespan_enter(p)
        \/ main_lifespan_create_all(p)
        \/ main_seed_database_count(p)
        \/ main_seed_database_insert(p)
        \/ main_seed_database_commit(p)
        \/ main_seed_database_except(p)
        \/ main_lifespan_yield(p)
        \/ main_lifespan_raise(p)
        \/ main_lifespan_shutdown(p)
        \/ process_restart(p)
        \/ main_root(p)
        \/ main_health_check(p)
        \/ response_sent(p)

SpecMain == Init /\ [][NextMain]_vars

\* ==================================== both variants, one process at a time
\* The process that runs application.py and the process that runs main.py.
AppProc == 1
MainProc == 2

\* The routes of application.py: the value its handler returns for a
\* request when the store answers with the rows given.
application_response(route, arg, rows) ==
    CASE route = "/" ->
            Response("/", 0, 200,
                     [message |-> "Azure SWA Demo API", status |-> "healthy"])
      [] route = "/health" ->
            Response("/health", 0, 200, [status |-> "healthy"])
      [] route = "/users" -> get_users_response(rows)
      [] route = "/users/{user_id}" -> get_user_response(rows, arg)

\* The routes of main.py.
main_response(route, arg, rows) ==
    CASE route = "/" ->
            Response("/", 0, 200,
                     [message |-> "Azure SWA Demo API", status |-> "healthy"])
      [] route = "/health" ->
            Response("/health", 0, 200, [status |-> "healthy"])
      [] route = "/users" -> main_get_users_response(rows)
      [] route = "/users/{user_id}" -> main_get_user_response(rows, arg)

\* Process p is not between its startup and its shutdown.
NotRunning(p) == phase[p] \in {"NotStarted", "Stopped", "Crashed"}

\* Either variant is started while the other is not running, and serves
\* all its routes.
NextEquiv ==
    \/ NotRunning(MainProc) /\ lifespan_enter(AppProc)
    \/ init_database(AppProc)
    \/ lifespan_branch(AppProc)
    \/ seed_database_count(AppProc)
    \/ seed_database_insert(AppProc)
    \/ seed_database_commit(AppProc)
    \/ seed_database_except(AppProc)
    \/ lifespan_yield(AppProc)
    \/ lifespan_raise(AppProc)
    \/ lifespan_shutdown(AppProc)
    \/ lifespan_exit(AppProc)
    \/ root(AppProc)
    \/ health_check(AppProc)
    \/ get_db(AppProc)
    \/ get_users(AppProc)
    \/ get_user(AppProc)
    \/ request_cancelled(AppProc)
    \/ NotRunning(AppProc) /\ main_lifespan_enter(MainProc)
    \/ main_lifespan_create_all(MainProc)
    \/ main_seed_database_count(MainProc)
    \/ main_seed_database_insert(MainProc)
    \/ main_seed_database_commit(MainProc)
    \/ main_seed_database_except(MainProc)
    \/ main_lifespan_yield(MainProc)
    \/ main_lifespan_raise(MainProc)
    \/ main_lifespan_shutdown(MainProc)
    \/ main_root(MainProc)
    \/ main_health_check(MainProc)
    \/ main_get_db(MainProc)
    \/ main_get_users(MainProc)
    \/ main_get_user(MainProc)
    \/ main_request_cancelled(MainProc)
    \/ \E p \in {AppProc, MainProc} : process_restart(p)
    \/ \E p \in {AppProc, MainProc} : response_sent(p)

SpecEquiv == Init /\ [][NextEquiv]_vars

\* ================================================================ claims
LifecycleStates == {"NotStarted", "Initializing", "InitFailed", "Seeding",
                    "Ready", "ShuttingDown", "Stopped", "Crashed"}

TypeOK ==
    /\ tableExists \in BOOLEAN
    /\ \A p \in Procs :
         /\ phase[p] \in LifecycleStates
         /\ pc[p] \in {"idle", "create_all", "count", "insert", "commit", "except"}
         /\ attempt[p] \in 0..SeedMaxRetries
         /\ err[p] \in {"none", "IntegrityError", "OperationalError"}
         /\ initResult[p] \in {"none", "True", "False"}
         /\ seedResult[p] \in {"none", "running", "returned", "exhausted",
                               "swallowed", "raised"}
         /\ inflight[p] \in 0..MaxInFlight
         /\ sess[p] \in 0..MaxInFlight
         /\ pool[p] \in {0, 1}
         /\ backoff[p] \in 0..3
         /\ resp[p].status \in {0, 200, 500}

\* seed_database has been invoked by p in this startup and has returned
\* (normally or after exhausting its retries).
SeedReturned(p) ==
    /\ seedCalls[p] > 0
    /\ \/ phase[p] \in {"Ready", "ShuttingDown", "Stopped"}
       \/ phase[p] = "Seeding" /\ seedResult[p] \in {"returned", "exhausted"}

NoDuplicateEmail == Cardinality(Emails(users)) = Cardinality(users)

ExactlyOneBatch ==
    /\ Cardinality(users) = Len(Baseline)
    /\ Emails(users) = BaselineEmails
    /\ NoDuplicateEmail

\* C1: two seed_database invocations racing on a store that starts empty,
\* with no failure other than the uniqueness violation of the race: once both
\* have returned the table holds exactly one batch of the 5 baseline records,
\* and at no time a partial batch of 1 to 4 rows.
C1_RacingPairSeedsOnce ==
    (users0 = {} /\ ~faulted) =>
        /\ Cardinality(users) \in {0, Len(Baseline)}
        /\ \A p, q \in Procs :
             (p # q /\ SeedReturned(p) /\ SeedReturned(q)) => ExactlyOneBatch

\* A seeder lost the race (uniqueness violation on its first attempt), retried
\* and returned, and its peer has returned too.
C1_Witness ==
    /\ users0 = {}
    /\ ~faulted
    /\ \E p, q \in Procs :
         /\ p # q
         /\ phase[p] = "Seeding" /\ seedResult[p] = "returned"
         /\ attempt[p] = 1 /\ pre[p] = {}
         /\ SeedReturned(q) /\ pre[q] = {}
         /\ restarts = 0

\* C2: from an empty store, under any interleaving and any store failures, the
\* table holds 0 rows or exactly the 5 baseline rows, and no two rows share an
\* email, in every reachable state.
C2_AtMostOneBatch ==
    users0 = {} => (users = {} \/ ExactlyOneBatch) /\ NoDuplicateEmail

\* One seeder has exhausted its retries on store failures while the table was
\* seeded by a peer.
C2_Witness ==
    /\ users0 = {}
    /\ faulted
    /\ ExactlyOneBatch
    /\ \E p \in Procs : phase[p] = "Seeding" /\ seedResult[p] = "exhausted"

\* C3: seed_database invoked N times one after another on the same store
\* (fresh at first) leaves exactly 5 records: every invocation that returns
\* normally leaves 5 rows; an invocation that started on a non-empty table
\* never gets past its count to an insert; and a non-empty table is never
\* changed again, so the count is never 10 and never goes back to 0.
C3_SequentialSeedsOnce ==
    /\ [](users0 = {} =>
            /\ Cardinality(users) <= Len(Baseline)
            /\ \A p \in Procs :
                 /\ (phase[p] = "Seeding" /\ seedResult[p] = "returned")
                        => Cardinality(users) = Len(Baseline)
                 /\ (phase[p] = "Seeding" /\ pre[p] # {})
                        => pc[p] \notin {"insert", "commit"})
    /\ [][users # {} => users' = users]_vars

\* A single process seeded the empty table, was restarted, invoked
\* seed_database again on the seeded table and returned at its first count.
C3_Witness ==
    /\ users0 = {}
    /\ restarts >= 1
    /\ \E p \in Procs :
         /\ phase[p] = "Seeding" /\ seedResult[p] = "returned"
         /\ attempt[p] = 0
         /\ pre[p] = SeededTable
         /\ users = SeededTable
         /\ \A q \in Procs \ {p} : phase[q] = "NotStarted"

\* C4 as stated: whenever seed_database returns through its success path the
\* store contains all 5 baseline records, whatever the table held before.
C4_SuccessImpliesBaseline ==
    \A p \in Procs :
        (phase[p] = "Seeding" /\ seedResult[p] = "returned")
            => BaselineEmails \subseteq Emails(users)

\* C4 as amended: whenever seed_database returns through its success path and
\* the table was empty or already held the baseline when it was invoked, the
\* store contains all 5 baseline records; on any other non-empty table it
\* returns normally and the table is as it was.
C4_SuccessImpliesBaselineOnFreshStore ==
    \A p \in Procs :
        (phase[p] = "Seeding" /\ seedResult[p] = "returned") =>
            IF pre[p] = {} \/ BaselineEmails \subseteq Emails(pre[p])
            THEN BaselineEmails \subseteq Emails(users)
            ELSE users = pre[p]

\* A seeder invoked on an empty table has inserted the batch and returned.
C4_Witness ==
    \E p \in Procs :
        /\ phase[p] = "Seeding" /\ seedResult[p] = "returned"
        /\ pre[p] = {}
        /\ attempt[p] = 0
        /\ users = SeededTable
        /\ \A q \in Procs \ {p} : phase[q] = "NotStarted"

\* C5: no request is served before startup has finished.  A process that has
\* served a response has had init_database return and, if it invoked
\* seed_database, has had it return; a response is produced only in Ready;
\* and each lifecycle state is entered only from its predecessor in
\* NotStarted -> Initializing -> (InitFailed | Seeding) -> Ready.
C5_NoRequestBeforeStartup ==
    /\ [](\A p \in Procs :
            resp[p] # NoResponse =>
                /\ phase[p] \in {"Ready", "ShuttingDown", "Stopped"}
                /\ initResult[p] # "none"
                /\ pc[p] = "idle"
                /\ seedResult[p] = "none"
                /\ (initResult[p] = "True" => seedCalls[p] = 1))
    /\ [][\A p \in Procs :
            /\ (resp'[p] # resp[p] /\ resp'[p] # NoResponse) => phase[p] = "Ready"
            /\ phase'[p] # phase[p] =>
                 /\ phase'[p] = "Initializing" => phase[p] = "NotStarted"
                 /\ phase'[p] \in {"InitFailed", "Seeding"} => phase[p] = "Initializing"
                 /\ phase'[p] = "Ready" => phase[p] \in {"InitFailed", "Seeding"}]_vars

\* A process that ran seed_database has reached Ready and served a request.
C5_Witness ==
    \E p \in Procs :
        /\ phase[p] = "Ready"
        /\ resp[p].route = "/health" /\ resp[p].status = 200
        /\ initResult[p] = "True"
        /\ seedCalls[p] = 1

\* C6: lifespan runs seed_database if and only if init_database returned
\* True: after False it is never invoked and a step that changes the table is
\* never a step of such a process; after True it is invoked exactly once.
C6_SeedIffInitSucceeded ==
    /\ [](\A p \in Procs :
            /\ seedCalls[p] <= 1
            /\ initResult[p] = "False" => seedCalls[p] = 0 /\ phase[p] # "Seeding"
            /\ (initResult[p] = "True" /\ phase[p] # "Initializing") => seedCalls[p] = 1
            /\ seedCalls[p] = 1 => initResult[p] = "True")
    /\ [][users' # users =>
            \E p \in Procs : /\ pc[p] = "commit" /\ pc'[p] = "idle"
                             /\ initResult[p] = "True"]_vars

\* One process runs degraded after three failed schema attempts without
\* having seeded, while another initialised, seeded once and is Ready.
C6_Witness ==
    \E p, q \in Procs :
        /\ initResult[p] = "False" /\ phase[p] = "Ready" /\ seedCalls[p] = 0
        /\ initResult[q] = "True" /\ phase[q] = "Ready" /\ seedCalls[q] = 1

\* C7: whatever store calls fail during startup (create_all, and the count,
\* insert, commit or rollback of seeding), startup of application.py ends at
\* the yield: within 3 schema attempts and 3 seeding attempts, no exception
\* leaves seed_database and no process ends its startup crashed.
C7_StartupNeverCrashes ==
    \A p \in Procs :
        /\ createCalls[p] <= InitMaxRetries
        /\ attempt[p] < SeedMaxRetries
        /\ seedResult[p] # "raised"
        /\ phase[p] # "Crashed"

\* C8: in main.py a failure of schema creation or of seeding at startup is
\* absorbed: after any failed store call the lifespan is still on its way to
\* the yield or past it, never ended by an exception.
C8_MainStartupFailureAbsorbed ==
    faulted => \A p \in Procs :
                   phase[p] \in {"NotStarted", "Initializing", "Seeding",
                                 "Ready", "ShuttingDown", "Stopped"}

\* C9: init_database never raises, makes at most 3 create_all calls, returns
\* True at the first call that succeeds (every earlier call failed, none
\* follows) and returns False exactly when 3 calls have failed.
C9_InitDatabaseRetriesThenReports ==
    /\ [](\A p \in Procs :
            /\ createCalls[p] <= InitMaxRetries
            /\ phase[p] = "Initializing" =>
                 /\ initResult[p] = "none" =>
                      /\ pc[p] = "create_all"
                      /\ createFails[p] = createCalls[p]
                      /\ createFails[p] < InitMaxRetries
                 /\ initResult[p] = "True" =>
                      /\ pc[p] = "idle"
                      /\ createCalls[p] = createFails[p] + 1
                      /\ tableExists
                 /\ initResult[p] = "False" =>
                      /\ pc[p] = "idle"
                      /\ createFails[p] = InitMaxRetries
                      /\ createCalls[p] = InitMaxRetries)
    /\ [][\A p \in Procs :
            /\ (phase[p] = "Initializing" /\ phase'[p] # phase[p])
                   => phase'[p] \in {"Seeding", "InitFailed"}
            /\ (phase[p] = "Initializing" /\ createFails'[p] = createFails[p]
                  /\ createCalls'[p] = createCalls[p] + 1)
                   => initResult'[p] = "True"]_vars

\* One init_database call has returned False after three failed attempts and
\* another has returned True on its third attempt, after two failures.
C9_Witness ==
    \E p, q \in Procs :
        /\ phase[p] = "Initializing" /\ initResult[p] = "False"
        /\ createFails[p] = 3
        /\ phase[q] = "Initializing" /\ initResult[q] = "True"
        /\ createFails[q] = 2 /\ createCalls[q] = 3

\* C10: in seed_database every exception of the count, insert or commit step
\* leads to the rollback with the table untouched, and the rollback is
\* followed by a retry from the count while attempts remain (3 in total),
\* otherwise by the normal return after the error log; no exception is left
\* to surface to the caller.
C10_ExceptionRollsBackAndRetries ==
    [][\A p \in Procs :
         phase[p] = "Seeding" =>
            /\ (pc[p] \in {"count", "insert", "commit"} /\ err'[p] # "none")
                   => pc'[p] = "except" /\ users' = users
            /\ (pc[p] = "except" /\ pc'[p] # "except") =>
                   /\ pending'[p] = << >>
                   /\ err'[p] = "none"
                   /\ IF attempt[p] < SeedMaxRetries - 1
                      THEN pc'[p] = "count" /\ attempt'[p] = attempt[p] + 1
                      ELSE seedResult'[p] = "exhausted"]_vars

\* C11: every session acquired through get_db is released on every exit
\* path of the request (normal return, a store error raised in the handler,
\* cancellation): a process holds exactly one open request-scoped session
\* per request in flight, so with no request in flight none is open.
C11_SessionReleasedOnEveryExit ==
    \A p \in Procs :
        /\ sess[p] = inflight[p]
        /\ (inflight[p] = 0 => sess[p] = 0)

\* A request whose handler raised on a store error has ended and left no
\* session open.
C11_Witness ==
    \E p \in Procs :
        /\ resp[p] = ServerError("/users", 0)
        /\ inflight[p] = 0
        /\ sess[p] = 0

\* C12: when the process stops the pooled connections are released: once
\* the shutdown part of lifespan has run (state Stopped) no connection of
\* the process's engine pool remains open.
C12_PoolReleasedAtShutdown ==
    \A p \in Procs : phase[p] = "Stopped" => pool[p] = 0

\* C13: whenever the store answers the query of GET /users/{user_id}, the
\* response for an id that exists in the table is exactly that record's
\* {id, name, email}, and for an id that does not exist it is the body
\* {"error": "User not found"}; both carry the same success status 200,
\* never a distinct not-found status.
C13_GetUserRecordOrNotFound ==
    [][\A p \in Procs :
         (/\ resp[p] = NoResponse
          /\ resp'[p].route = "/users/{user_id}"
          /\ resp'[p].status # 500)
         => LET found == { u \in users : u.id = resp'[p].arg }
            IN  /\ resp'[p].status = 200
                /\ IF found = {}
                   THEN resp'[p].body = [error |-> "User not found"]
                   ELSE \E u \in found :
                           /\ found = {u}
                           /\ resp'[p].body = [id |-> u.id, name |-> u.name,
                                               email |-> u.email]]_vars

\* GET /users/1 has been answered with the record the table holds under
\* id 1.
C13_Witness ==
    \E p \in Procs : \E u \in users :
        /\ u.id = 1
        /\ resp[p] = Response("/users/{user_id}", 1, 200,
                              [id |-> 1, name |-> u.name, email |-> u.email])

\* C14: GET /health is answered with {"status": "healthy"} in every state
\* in which requests are accepted, whatever the outcome of init_database
\* and whether or not the store can be reached, and answering it accesses
\* no store: no session is acquired and the table, its rows and the pool
\* are left as they were.
C14_HealthAlwaysHealthyNoStoreAccess ==
    /\ [](\A p \in Procs :
            (Serving(p) /\ resp[p] = NoResponse) => ENABLED health_check(p))
    /\ [][\A p \in Procs :
            (resp[p] = NoResponse /\ resp'[p].route = "/health")
            => /\ resp'[p].status = 200
               /\ resp'[p].body = [status |-> "healthy"]
               /\ UNCHANGED << tableExists, users, sess, inflight, pool,
                               faulted >>]_vars

\* GET /health has been answered as healthy by a process whose
\* init_database returned False, on a store that cannot be reached.
C14_Witness ==
    \E p \in Procs :
        /\ resp[p] = Response("/health", 0, 200, [status |-> "healthy"])
        /\ initResult[p] = "False"
        /\ ~tableExists

\* C15: no request handler changes the store: every step that serves or
\* ends a request of GET /, /health, /users or /users/{user_id}, in any
\* interleaving, leaves the users table as it was, and a table that holds
\* rows keeps exactly those rows (id, name, email) for the rest of the run.
C15_HandlersLeaveStoreUnchanged ==
    /\ [][(resp' # resp \/ inflight' # inflight \/ sess' # sess)
             => UNCHANGED << tableExists, users >>]_vars
    /\ [][users # {} => users' = users]_vars

\* GET /users has been answered from the table the startup seeded on an
\* empty store, and the table still is the seeded one.
C15_Witness ==
    \E p \in Procs :
        /\ users0 = {}
        /\ users = SeededTable
        /\ resp[p] = get_users_response(SeededTable)

\* C16: in init_database and in seed_database the delay between attempts is
\* exponential: after failed attempt k, counted from 0, the function sleeps
\* 2^k seconds before the next attempt (1s after the first failure, 2s after
\* the second) and it does not sleep after the third and last one, so a
\* retry loop that is exhausted has slept 3 seconds in total.
C16_ExponentialBackoff ==
    /\ [](\A p \in Procs :
            /\ phase[p] \in {"Initializing", "Seeding"}
                   => backoff[p] = 2^attempt[p] - 1
            /\ (phase[p] = "Initializing" /\ initResult[p] = "False")
                   => backoff[p] = 1 + 2
            /\ seedResult[p] = "exhausted" => backoff[p] = 1 + 2)
    /\ [][\A p \in Procs :
            backoff'[p] > backoff[p]
            => /\ attempt[p] \in {0, 1}
               /\ attempt'[p] = attempt[p] + 1
               /\ backoff'[p] - backoff[p] = IF attempt[p] = 0 THEN 1 ELSE 2
               /\ pc'[p] \in {"create_all", "count"}]_vars

\* One init_database call has returned False and one seed_database call has
\* ended after its last attempt, each having slept 1s and 2s.
C16_Witness ==
    \E p, q \in Procs :
        /\ phase[p] = "Initializing" /\ initResult[p] = "False"
        /\ createFails[p] = InitMaxRetries /\ backoff[p] = 3
        /\ phase[q] = "Seeding" /\ seedResult[q] = "exhausted"
        /\ attempt[q] = SeedMaxRetries - 1 /\ backoff[q] = 3

\* C17: when the only failures are uniqueness violations caused by a
\* concurrent peer's committed batch, a seed_database that loses the race
\* recovers on its very next attempt: that attempt counts a non-zero number
\* of rows, inserts nothing and returns normally, so every invocation ends
\* within 2 attempts and never with "failed after all retries".
C17_RaceLoserRecoversOnNextAttempt ==
    ~faulted =>
        \A p \in Procs :
            phase[p] = "Seeding" =>
                /\ attempt[p] <= 1
                /\ seedResult[p] \notin {"exhausted", "raised"}
                /\ attempt[p] = 1 =>
                       /\ CountUsers # 0
                       /\ pc[p] \in {"count", "idle"}
                       /\ pending[p] = << >>
                       /\ err[p] = "none"

\* The loser of a race on an empty store has returned normally from its
\* second attempt, the table holding the peer's batch.
C17_Witness ==
    \E p \in Procs :
        /\ ~faulted
        /\ users0 = {} /\ users = SeededTable
        /\ phase[p] = "Seeding"
        /\ attempt[p] = 1
        /\ seedResult[p] = "returned"

\* C18: on a store where no operation fails and with one process at a
\* time, main.py and application.py are equivalent: neither fails to start,
\* after startup either has left the same table (the 5 baseline rows on an
\* empty store, the table as it was otherwise), and for every request the
\* handler of one returns the response the handler of the other returns.
C18_VariantsEquivalent ==
    /\ [](~faulted =>
            /\ \A p \in {AppProc, MainProc} :
                  /\ phase[p] \notin {"Crashed", "InitFailed"}
                  /\ phase[p] \in {"Ready", "ShuttingDown", "Stopped"} =>
                         /\ tableExists
                         /\ users = IF users0 = {} THEN SeededTable
                                                   ELSE users0
            /\ \A route \in {"/", "/health", "/users", "/users/{user_id}"} :
                  \A arg \in UserIds :
                     main_response(route, arg, users)
                        = application_response(route, arg, users))
    /\ [][~faulted' =>
            /\ (resp[MainProc] = NoResponse /\ resp'[MainProc] # NoResponse)
                  => resp'[MainProc] =
                        application_response(resp'[MainProc].route,
                                             resp'[MainProc].arg, users)
            /\ (resp[AppProc] = NoResponse /\ resp'[AppProc] # NoResponse)
                  => resp'[AppProc] =
                        main_response(resp'[AppProc].route,
                                      resp'[AppProc].arg, users)]_vars

\* main.py, started alone on an empty store where nothing failed, has
\* seeded the baseline and answered GET /users/1 as application.py would.
C18_Witness ==
    /\ ~faulted
    /\ restarts = 0
    /\ users0 = {}
    /\ users = SeededTable
    /\ phase[AppProc] = "NotStarted"
    /\ phase[MainProc] = "Ready"
    /\ resp[MainProc] = get_user_response(SeededTable, 1)

====
